---- MODULE Spec2Model ----
(***************************************************************************)
(* Model of runner/tasks.py: the pytest summary-line parser, the result    *)
(* extractor, the remaining-tests selector, the table renderer and the     *)
(* run_all / run_pytest orchestration.                                     *)
(*                                                                         *)
(* Text is modelled as a sequence of one-character strings, so that the    *)
(* regular expressions, str(), len() and the centred formatting act on     *)
(* characters as they do in the code.                                      *)
(***************************************************************************)
EXTENDS Integers, Sequences, FiniteSets, TLC

VARIABLES call, ret, ctx, fs, pc, args, run, log

vars == <<call, ret, ctx, fs, pc, args, run, log>>

----------------------------------------------------------------------------
(* Characters and literals *)

\* F(e), with e evaluated once however often F uses its argument
Bind(e, F(_)) == CHOOSE r \in {F(v) : v \in {e}} : TRUE

DigitChars == <<"0", "1", "2", "3", "4", "5", "6", "7", "8", "9">>

IsDigit(c) == \E i \in 1..10 : DigitChars[i] = c

DigitVal(c) == (CHOOSE i \in 1..10 : DigitChars[i] = c) - 1

RECURSIVE IntToStr(_)
\* str(n) for a non-negative int
IntToStr(n) ==
    IF n < 10 THEN <<DigitChars[n + 1]>>
    ELSE IntToStr(n \div 10) \o <<DigitChars[(n % 10) + 1]>>

RECURSIVE StrToIntUpTo(_, _)
\* int(s[:n]) for a string of decimal digits
StrToIntUpTo(s, n) ==
    IF n = 0 THEN 0 ELSE 10 * StrToIntUpTo(s, n - 1) + DigitVal(s[n])

\* int(s) for a string of decimal digits
StrToInt(s) == StrToIntUpTo(s, Len(s))

AllDigits(s) == Len(s) > 0 /\ \A i \in 1..Len(s) : IsDigit(s[i])

\* c * n
Rep(c, n) == [i \in 1..n |-> c]

RECURSIVE JoinUpTo(_, _, _)
\* sep.join(parts[:n])
JoinUpTo(parts, sep, n) ==
    IF n = 0 THEN <<>>
    ELSE IF n = 1 THEN parts[1]
    ELSE JoinUpTo(parts, sep, n - 1) \o sep \o parts[n]

\* sep.join(parts)
Join(parts, sep) == Bind(parts, LAMBDA ps : JoinUpTo(ps, sep, Len(ps)))

\* line[i:i+len(lit)] == lit  (1-based i)
At(line, i, lit) ==
    /\ i >= 1
    /\ i + Len(lit) - 1 <= Len(line)
    /\ \A j \in 1..Len(lit) : line[i + j - 1] = lit[j]

\* xs.split(x): the pieces of the sequence xs between the occurrences of
\* the element x
SplitOn(xs, x) ==
    Bind({0, Len(xs) + 1} \cup {i \in 1..Len(xs) : xs[i] = x}, LAMBDA cuts :
        <<>> \o [k \in 1..(Cardinality(cuts) - 1) |->
            Bind(CHOOSE i \in cuts : Cardinality({j \in cuts : j < i}) = k - 1,
                 LAMBDA a :
                    SubSeq(xs, a + 1,
                           (CHOOSE j \in cuts :
                                Cardinality({h \in cuts : h < j}) = k) - 1))])

sFailed == <<" ", "f", "a", "i", "l", "e", "d">>
sPassed == <<" ", "p", "a", "s", "s", "e", "d">>
sIn == <<"i", "n", " ">>
sSeconds == <<" ", "s", "e", "c", "o", "n", "d", "s">>
sNone == <<"N", "o", "n", "e">>
sNan == <<"n", "a", "n">>
sInf == <<"i", "n", "f">>

\* tagged Python values held in result records
PyInt(n) == [t |-> "int", v |-> n]
PyStr(s) == [t |-> "str", v |-> s]

----------------------------------------------------------------------------
(* RESULT_LINE_PATTERN and RESULT_PATTERN (re.match: anchored at the start,  *)
(* greedy, leftmost alternative first, backtracking)                         *)

\* number of "=" characters the line starts with
LeadEq(line) ==
    IF Len(line) = 0 \/ line[1] # "=" THEN 0
    ELSE CHOOSE k \in 1..Len(line) :
            /\ \A i \in 1..k : line[i] = "="
            /\ (k = Len(line) \/ line[k + 1] # "=")

\* index of the last digit of the digit run that starts at i (i - 1 if none)
DigitRunEnd(line, i) ==
    IF i > Len(line) \/ ~IsDigit(line[i]) THEN i - 1
    ELSE CHOOSE e \in i..Len(line) :
            /\ \A j \in i..e : IsDigit(line[j])
            /\ (e = Len(line) \/ ~IsDigit(line[e + 1]))

\* RESULT_LINE_PATTERN = "===+.*===+" : three or more "=", anything, and
\* three "=" again somewhere after the first three
RESULT_LINE_PATTERN(line) ==
    /\ LeadEq(line) >= 3
    /\ \E j \in 4..Len(line) : At(line, j, <<"=", "=", "=">>)

\* "(<lead>(?P<name>\d+)<word>)?" tried at index i: the index after the
\* group, or 0 when the group cannot match there.  <word> starts with a
\* space, so \d+ can only be the whole digit run.
NumClauseEnd(line, i, lead, word) ==
    Bind(DigitRunEnd(line, i + Len(lead)), LAMBDA e :
        IF At(line, i, lead) /\ e >= i + Len(lead) /\ At(line, e + 1, word)
        THEN e + 1 + Len(word) ELSE 0)

\* The partial matches of RESULT_PATTERN are records: p the index of the
\* next character to match, failed / success the text of the groups (<<>>
\* when the group took no part), rank the order in which backtracking tries
\* them (higher first).

\* "===+": every number of "=" from three up, the longest first
MatchBanner(line) ==
    {[p |-> k + 1, failed |-> <<>>, success |-> <<>>, rank |-> 8 * k] :
        k \in 3..LeadEq(line)}

\* "( (?P<failed>\d+) failed)?": taken first, skipped second
MatchFailed(line, m) ==
    Bind(NumClauseEnd(line, m.p, <<" ">>, sFailed), LAMBDA e :
        {m} \cup (IF e = 0 THEN {}
                  ELSE {[m EXCEPT !.p = e, !.rank = @ + 4,
                            !.failed = SubSeq(line, m.p + 1,
                                              e - Len(sFailed) - 1)]}))

\* ",? ": the comma taken first, skipped second, then the space
MatchComma(line, m) ==
    {n \in {m, [m EXCEPT !.p = @ + 1, !.rank = @ + 2]} :
        /\ (n.p # m.p => At(line, m.p, <<",">>))
        /\ At(line, n.p, <<" ">>)}

\* "((?P<success>\d+) passed)?" after the space
MatchSuccess(line, m) ==
    Bind(NumClauseEnd(line, m.p + 1, <<>>, sPassed), LAMBDA e :
        {[m EXCEPT !.p = @ + 1]}
            \cup (IF e = 0 THEN {}
                  ELSE {[m EXCEPT !.p = e, !.rank = @ + 1,
                            !.success = SubSeq(line, m.p + 1,
                                               e - Len(sPassed) - 1)]}))

\* the ways "===+( (\d+) failed)?,? ((\d+) passed)?" matches the start of
\* the line
PrefixMatches(line) ==
    UNION {UNION {UNION {MatchSuccess(line, c) : c \in MatchComma(line, b)} :
                    b \in MatchFailed(line, a)} :
            a \in MatchBanner(line)}

\* The ways ".*in (?P<time>.*) seconds.*" matches from index p on:
\* <<ip, sp>> with "in " at ip >= p and " seconds" at sp >= ip + 3.
TailMatches(line, p) ==
    {t \in {ip \in p..Len(line) : At(line, ip, sIn)}
            \X {sp \in p..Len(line) : At(line, sp, sSeconds)} :
        t[2] >= t[1] + Len(sIn)}

\* Greedy ".*": the last "in " that a " seconds" follows, then the last
\* " seconds"; the text of the time group.
TailMatch(line, p) ==
    Bind(TailMatches(line, p), LAMBDA T :
        SubSeq(line,
               (CHOOSE t \in T : \A u \in T : u[1] <= t[1])[1] + Len(sIn),
               (CHOOSE t \in T : \A u \in T : u[2] <= t[2])[2] - 1))

\* RESULT_PATTERN.match(line): [matched, failed, success, time]
RESULT_PATTERN(line) ==
    Bind({m \in PrefixMatches(line) : TailMatches(line, m.p) # {}}, LAMBDA M :
        IF M = {}
        THEN [matched |-> FALSE, failed |-> <<>>, success |-> <<>>,
              time |-> <<>>]
        ELSE Bind(CHOOSE a \in M : \A b \in M : b.rank <= a.rank, LAMBDA m :
                [matched |-> TRUE, failed |-> m.failed, success |-> m.success,
                 time |-> TailMatch(line, m.p)]))

----------------------------------------------------------------------------
(* _safe_cast, float(), timedelta, the "%" format and _parse_log_line *)

\* Python dicts with string keys: functions from the keys present
EmptyDict == [k \in {} |-> PyInt(0)]

\* d.update(e)
Update(d, e) ==
    [k \in DOMAIN d \cup DOMAIN e |-> IF k \in DOMAIN e THEN e[k] ELSE d[k]]

\* index of the "." of the text, 0 if none
DotIndex(text) ==
    IF \E i \in 1..Len(text) : text[i] = "."
    THEN CHOOSE i \in 1..Len(text) :
            text[i] = "." /\ \A j \in 1..(i - 1) : text[j] # "."
    ELSE 0

RECURSIVE Pow10(_)
Pow10(n) == IF n <= 0 THEN 1 ELSE 10 * Pow10(n - 1)

\* float(text) on the shapes of text the model feeds it: decimal digits with
\* an optional fraction of up to six digits (a finite number, kept as whole
\* seconds and microseconds), "nan" and "inf" (float() accepts both);
\* anything else is a ValueError.
Float(text) ==
    Bind(DotIndex(text), LAMBDA d :
        Bind(IF d = 0 THEN text ELSE SubSeq(text, 1, d - 1), LAMBDA whole :
            Bind(IF d = 0 THEN <<>> ELSE SubSeq(text, d + 1, Len(text)),
                 LAMBDA frac :
                    IF text = sNan
                    THEN [kind |-> "nan", secs |-> 0, micros |-> 0]
                    ELSE IF text = sInf
                    THEN [kind |-> "inf", secs |-> 0, micros |-> 0]
                    ELSE IF /\ AllDigits(whole)
                            /\ (d # 0 => AllDigits(frac) /\ Len(frac) <= 6)
                    THEN [kind |-> "num", secs |-> StrToInt(whole),
                          micros |-> StrToInt(frac) * Pow10(6 - Len(frac))]
                    ELSE [kind |-> "ValueError", secs |-> 0, micros |-> 0])))

\* _safe_cast(val, float): None for what float() rejects
SafeCastFloat(text) ==
    Bind(Float(text), LAMBDA x :
        IF x.kind = "ValueError" THEN [x EXCEPT !.kind = "None"] ELSE x)

\* _safe_cast(val, int) on a \d+ group
SafeCastInt(text) == StrToInt(text)

\* bool(time): None and 0.0 are falsy, nan and inf are truthy
Truthy(time) ==
    \/ time.kind \in {"nan", "inf"}
    \/ time.kind = "num" /\ (time.secs # 0 \/ time.micros # 0)

\* zero-padded decimal of width w
ZeroPad(n, w) == Rep("0", w - Len(IntToStr(n))) \o IntToStr(n)

\* str(datetime.timedelta(seconds=time)) for a finite time
TimedeltaStr(time) ==
    Bind(time.secs \div 86400, LAMBDA days :
        Bind(time.secs % 86400, LAMBDA rest :
            (IF days = 0 THEN <<>>
             ELSE IntToStr(days) \o <<" ", "d", "a", "y">>
                    \o (IF days = 1 THEN <<>> ELSE <<"s">>) \o <<",", " ">>)
            \o IntToStr(rest \div 3600) \o <<":">>
            \o ZeroPad((rest % 3600) \div 60, 2) \o <<":">>
            \o ZeroPad(rest % 60, 2)
            \o (IF time.micros = 0 THEN <<>>
                ELSE <<".">> \o ZeroPad(time.micros, 6))))

\* mutant of RoundPercent: the percentage truncated instead of rounded
RoundPercentTruncated(success, total) == (100 * success) \div total

\* 100 * success / total rounded to a whole number, ties to the even one
RoundPercent(success, total) ==
    Bind((100 * success) \div total, LAMBDA q :
        Bind((100 * success) % total, LAMBDA r :
            IF 2 * r > total THEN q + 1
            ELSE IF 2 * r = total THEN q + (q % 2)
            ELSE q))

\* f"{ratio:.0%}" with ratio = success / total if total else 0
RatioStr(success, total) ==
    Bind(IF total # 0 THEN RoundPercent(success, total) ELSE 0, LAMBDA pct :
        IntToStr(pct) \o <<"%">>)

\* lines 89-102 of _parse_log_line, for a line the pattern matched: exc is
\* the exception that escapes ("none" if the call returns), logged whether
\* logging.error was called, val the dict returned.
ParseMatch(failed, success, time) ==
    IF Truthy(time) /\ time.kind = "nan"
    THEN [exc |-> "ValueError", logged |-> FALSE, val |-> EmptyDict]
    ELSE IF Truthy(time) /\ time.kind = "inf"
    THEN [exc |-> "OverflowError", logged |-> FALSE, val |-> EmptyDict]
    ELSE [exc |-> "none", logged |-> FALSE,
          val |-> [failed |-> PyInt(failed),
                   total |-> PyInt(failed + success),
                   duration |-> PyStr(IF Truthy(time) THEN TimedeltaStr(time)
                                      ELSE sNone),
                   ratio |-> PyStr(RatioStr(success, failed + success))]]

\* _parse_log_line(line)
ParseLogLine(line) ==
    Bind(RESULT_PATTERN(line), LAMBDA match :
        IF ~match.matched
        THEN [exc |-> "none", logged |-> TRUE, val |-> EmptyDict]
        ELSE Bind(IF match.failed # <<>> THEN SafeCastInt(match.failed) ELSE 0,
                  LAMBDA failed :
                Bind(IF match.success # <<>> THEN SafeCastInt(match.success)
                     ELSE 0, LAMBDA success :
                    Bind(SafeCastFloat(match.time), LAMBDA time :
                        ParseMatch(failed, success, time)))))

----------------------------------------------------------------------------
(* Summary lines fed to _parse_log_line *)

MaxCount == 1
MaxEq == 4

\* counts written in a clause; -1: the clause is absent
Counts == (0..MaxCount) \cup {7, 12}

sNoTestsRan == <<"n", "o", " ", "t", "e", "s", "t", "s", " ", "r", "a", "n">>
sSkipped == <<"1", " ", "s", "k", "i", "p", "p", "e", "d">>
sTestSession == <<"t", "e", "s", "t", " ", "s", "e", "s", "s", "i", "o", "n">>

Seps == {<<",", " ">>, <<" ">>, <<",">>}
Fillers == {<<>>, sNoTestsRan, sSkipped}
Times == {<<"1">>, <<"0">>, <<"7", "5", ".", "5">>, <<"a", "b", "c">>,
          sNan, sInf}
Units == {sSeconds, <<"s">>}

LineShapes ==
    [lead : {0} \cup (2..MaxEq), f : Counts \cup {-1}, p : Counts \cup {-1},
     sep : Seps, failedFirst : BOOLEAN, filler : Fillers, time : Times,
     unit : Units, closing : {0, 3}]

\* the text of the line of shape sh, as the test runner would print it
LineOf(sh) ==
    Bind((IF sh.failedFirst
          THEN (IF sh.f = -1 THEN <<>> ELSE <<IntToStr(sh.f) \o sFailed>>)
                \o (IF sh.p = -1 THEN <<>> ELSE <<IntToStr(sh.p) \o sPassed>>)
          ELSE (IF sh.p = -1 THEN <<>> ELSE <<IntToStr(sh.p) \o sPassed>>)
                \o (IF sh.f = -1 THEN <<>> ELSE <<IntToStr(sh.f) \o sFailed>>))
         \o (IF sh.filler = <<>> THEN <<>> ELSE <<sh.filler>>),
         LAMBDA clauses :
            Rep("=", sh.lead)
                \o (IF sh.lead > 0 THEN <<" ">> ELSE <<>>)
                \o Join(clauses, sh.sep)
                \o (IF Len(clauses) > 0 THEN <<" ">> ELSE <<>>)
                \o sIn \o sh.time \o sh.unit
                \o (IF sh.closing > 0 THEN <<" ">> \o Rep("=", sh.closing)
                    ELSE <<>>))

----------------------------------------------------------------------------
(* Specifications of the pure functions: Init draws the arguments of one   *)
(* call, the action applies the function.                                  *)

Pending == [exc |-> "pending"]

\* the orchestration variables are not used by the function specifications
NoRun ==
    /\ ctx = <<>> /\ fs = <<>> /\ pc = "off" /\ args = <<>> /\ run = <<>>
    /\ log = <<>>

InitParse ==
    /\ call \in {[fn |-> "_parse_log_line", shape |-> sh, line |-> LineOf(sh)] :
                    sh \in LineShapes}
    /\ ret = Pending
    /\ NoRun

CallParseLogLine ==
    /\ call.fn = "_parse_log_line"
    /\ ret = Pending
    /\ ret' = ParseLogLine(call.line)
    /\ UNCHANGED <<call, ctx, fs, pc, args, run, log>>

SpecParse == InitParse /\ [][CallParseLogLine]_vars

\* The summary lines as pytest prints them: the failed clause before the
\* passed clause, clauses separated by ", " or " ".
NumClauses(sh) ==
    (IF sh.f = -1 THEN 0 ELSE 1) + (IF sh.p = -1 THEN 0 ELSE 1)
        + (IF sh.filler = <<>> THEN 0 ELSE 1)

SummaryShape(sh) ==
    /\ (sh.f = -1 \/ sh.p = -1 \/ sh.failedFirst)
    /\ (NumClauses(sh) <= 1 \/ sh.sep \in {<<",", " ">>, <<" ">>})

NumericTimes == {<<"1">>, <<"0">>, <<"7", "5", ".", "5">>}

Returned == ret # Pending /\ ret.exc = "none"

Accepted == Returned /\ DOMAIN ret.val # {}

\* r is 100 * p / total rounded to a nearest whole number
NearestPercent(r, p, total) ==
    LET diff == 100 * p - r * total
    IN 2 * (IF diff < 0 THEN -diff ELSE diff) <= total

\* C1: every summary line (optional "<f> failed" clause, then optional
\* "<p> passed" clause, absent = 0, numeric seconds) that _parse_log_line
\* accepts gives failed = f, total = f + p and ratio = p / total rounded to
\* a whole percent, "0%" when total = 0.
ParseCountsAndRatio ==
    (/\ Accepted
     /\ SummaryShape(call.shape)
     /\ call.shape.time \in NumericTimes)
    => LET f == IF call.shape.f = -1 THEN 0 ELSE call.shape.f
           p == IF call.shape.p = -1 THEN 0 ELSE call.shape.p
       IN /\ ret.val["failed"] = PyInt(f)
          /\ ret.val["total"] = PyInt(f + p)
          /\ ret.val["ratio"].t = "str"
          /\ IF f + p = 0 THEN ret.val["ratio"].v = <<"0", "%">>
             ELSE \E r \in 0..100 :
                    /\ ret.val["ratio"].v = IntToStr(r) \o <<"%">>
                    /\ NearestPercent(r, p, f + p)

\* a line with both clauses, 7 failed and 1 passed (12.5%), was accepted
ParseCountsAndRatioWitness ==
    /\ Accepted
    /\ SummaryShape(call.shape)
    /\ call.shape.f = 7 /\ call.shape.p = 1
    /\ call.shape.time \in NumericTimes
    /\ ret.val["total"] = PyInt(8)

\* the "no tests ran" line was accepted with total 0
ParseNoTestsRanWitness ==
    /\ Accepted
    /\ call.shape.f = -1 /\ call.shape.p = -1
    /\ call.shape.filler = sNoTestsRan
    /\ ret.val["ratio"] = PyStr(<<"0", "%">>)

\* a banner line whose seconds field is not a number
SecondsUnparseable(sh) ==
    sh.lead >= 3 /\ sh.unit = sSeconds /\ sh.time = <<"a", "b", "c">>

\* C3: for every input line _parse_log_line never raises, and a non-banner
\* line, and a banner line whose seconds field cannot be parsed as a number,
\* both give an empty result after an error is logged.
ParseNeverRaisesEmptyOnBadLine ==
    ret # Pending =>
        /\ ret.exc = "none"
        /\ (~RESULT_LINE_PATTERN(call.line) \/ SecondsUnparseable(call.shape))
            => (DOMAIN ret.val = {} /\ ret.logged)

----------------------------------------------------------------------------
(* _get_results *)

\* text.split("\n")
Split(text) == SplitOn(text, "\n")

\* lines 115-120 of _get_results: the parse of the line found is merged into
\* the labels
MergeParsed(res, parsed) ==
    IF parsed.exc # "none" THEN [exc |-> parsed.exc, val |-> EmptyDict]
    ELSE [exc |-> "none", val |-> Update(res, parsed.val)]

\* _get_results(region, category, pytest_logs): the first line from the end
\* that RESULT_LINE_PATTERN matches is parsed and merged into the labels.
\* exc: the exception that escapes, val: the dict returned.
GetResults(region, category, pytest_logs) ==
    Bind([region |-> PyStr(region), category |-> PyStr(category)], LAMBDA res :
        Bind(Split(pytest_logs), LAMBDA lines :
            Bind({i \in 1..Len(lines) : RESULT_LINE_PATTERN(lines[i])},
                 LAMBDA hits :
                    IF hits = {} THEN [exc |-> "none", val |-> res]
                    ELSE Bind(ParseLogLine(
                                lines[CHOOSE i \in hits : \A j \in hits : j <= i]),
                              LAMBDA parsed : MergeParsed(res, parsed)))))

MaxLines == 3

sFr == <<"f", "r">>
sPoi == <<"p", "o", "i">>
sAddr == <<"a", "d", "d", "r">>

BannerShape(f, p, time, closing) ==
    [lead |-> 3, f |-> f, p |-> p, sep |-> <<",", " ">>, failedFirst |-> TRUE,
     filler |-> <<>>, time |-> time, unit |-> sSeconds, closing |-> closing]

\* lines a captured output is made of: two summary banners, a progress
\* banner that does not parse, a summary without closing marker (no banner),
\* a plain line, an empty line and a banner whose seconds are "nan"
LinePool ==
    { LineOf(BannerShape(-1, 1, <<"1">>, 3)),
      LineOf(BannerShape(7, 1, <<"7", "5", ".", "5">>, 3)),
      Rep("=", 3) \o <<" ">> \o sTestSession \o <<" ">> \o Rep("=", 3),
      LineOf(BannerShape(1, -1, <<"1">>, 0)),
      sSkipped,
      <<>>,
      LineOf(BannerShape(-1, 1, sNan, 3)) }

RECURSIVE SeqsUpTo(_, _)
\* the sequences over S of length at most n
SeqsUpTo(S, n) ==
    IF n = 0 THEN {<<>>}
    ELSE LET T == SeqsUpTo(S, n - 1)
         IN T \cup {Append(t, x) : t \in T, x \in S}

InitResults ==
    /\ call \in {[fn |-> "_get_results", region |-> sFr, category |-> c,
                  lines |-> ls, pytest_logs |-> Join(ls, <<"\n">>)] :
                    c \in {sPoi, sAddr}, ls \in SeqsUpTo(LinePool, MaxLines)}
    /\ ret = Pending
    /\ NoRun

CallGetResults ==
    /\ call.fn = "_get_results"
    /\ ret = Pending
    /\ ret' = GetResults(call.region, call.category, call.pytest_logs)
    /\ UNCHANGED <<call, ctx, fs, pc, args, run, log>>

SpecResults == InitResults /\ [][CallGetResults]_vars

\* C2: for every captured output _get_results returns {region, category}
\* merged with the parse of the last banner line of the output, whatever the
\* earlier lines are, and exactly {region, category} when the output has no
\* banner line.
ResultsFromLastBanner ==
    ret # Pending =>
        LET labels == [region |-> PyStr(call.region),
                       category |-> PyStr(call.category)]
            banners == {i \in 1..Len(call.lines) :
                            RESULT_LINE_PATTERN(call.lines[i])}
            last == CHOOSE i \in banners : \A j \in banners : j <= i
        IN /\ ret.exc = "none"
           /\ ret.val = IF banners = {} THEN labels
                        ELSE Update(labels, ParseLogLine(call.lines[last]).val)

----------------------------------------------------------------------------
(* _get_remaining_tests and the selector run_pytest passes to -k *)

sAnd == <<"a", "n", "d">>
sOr == <<"o", "r">>
sNot == <<"n", "o", "t">>

\* a category of the configuration; hasSelector: the "selector" key is set
Category(name, hasSelector, selector, remaining) ==
    [name |-> name, hasSelector |-> hasSelector, selector |-> selector,
     remaining_tests |-> remaining]

RECURSIVE SeqMap(_, _)
\* ["not " + s for s in selectors]
SeqMap(selectors, prefix) ==
    IF Len(selectors) = 0 THEN <<>>
    ELSE <<prefix \o Head(selectors)>> \o SeqMap(Tail(selectors), prefix)

RECURSIVE SelectorsOf(_)
\* [c["selector"] for c in categories if "selector" in c]
SelectorsOf(categories) ==
    IF Len(categories) = 0 THEN <<>>
    ELSE (IF Head(categories).hasSelector THEN <<Head(categories).selector>>
          ELSE <<>>) \o SelectorsOf(Tail(categories))

\* _get_remaining_tests(ctx)
GetRemainingTests(categories) ==
    Join(SeqMap(SelectorsOf(categories), sNot \o <<" ">>),
         <<" ">> \o sAnd \o <<" ">>)

\* the selector run_pytest computes for a category
PytestSelector(categories, category) ==
    IF category.remaining_tests THEN GetRemainingTests(categories)
    ELSE category.selector

RECURSIVE EvalNot(_, _)
\* "not"* keyword: the keyword matches the test iff it is one of its keywords
EvalNot(tokens, test) ==
    IF Len(tokens) = 0 THEN FALSE
    ELSE IF Head(tokens) = sNot THEN ~EvalNot(Tail(tokens), test)
    ELSE Head(tokens) \in test

\* The -k expression evaluated on a test (given as the set of keywords it
\* matches) with the precedence not > and > or; the empty expression selects
\* every test.  Expressions have no parentheses.
Selects(selector, test) ==
    LET tokens == SplitOn(selector, " ")
        ors == SplitOn(tokens, sOr)
    IN IF selector = <<>> THEN TRUE
       ELSE \E i \in 1..Len(ors) :
                LET ands == SplitOn(ors[i], sAnd)
                IN \A j \in 1..Len(ands) : EvalNot(ands[j], test)

MaxCats == 3

Keywords == {<<"a">>, <<"b">>, <<"c">>}

CategoryPool ==
    { Category(<<"x">>, TRUE, <<"a">>, FALSE),
      Category(<<"y">>, TRUE, <<"b">>, FALSE),
      Category(<<"z">>, TRUE, <<"a">> \o <<" ">> \o sOr \o <<" ", "b">>, FALSE),
      Category(<<"w">>, TRUE, <<"b">> \o <<" ">> \o sAnd \o <<" ", "c">>, FALSE),
      Category(<<"r">>, FALSE, <<>>, TRUE) }

InitSelector ==
    /\ call \in {[fn |-> "selector", categories |-> cs, index |-> i,
                  test |-> t] :
                    cs \in SeqsUpTo(CategoryPool, MaxCats) \ {<<>>},
                    i \in 1..MaxCats, t \in SUBSET Keywords}
    /\ call.index <= Len(call.categories)
    /\ ret = Pending
    /\ NoRun

CallSelector ==
    /\ call.fn = "selector"
    /\ ret = Pending
    /\ LET sel == PytestSelector(call.categories, call.categories[call.index])
       IN ret' = [exc |-> "none", selector |-> sel,
                  selected |-> Selects(sel, call.test)]
    /\ UNCHANGED <<call, ctx, fs, pc, args, run, log>>

SpecSelector == InitSelector /\ [][CallSelector]_vars

\* C4: the selector computed for a remaining_tests category selects a test
\* iff no other category's selector selects it, for single keywords and for
\* compound selectors; any other category uses its own selector unchanged.
RemainingSelectsUnclaimed ==
    ret # Pending =>
        LET cat == call.categories[call.index]
        IN IF cat.remaining_tests
           THEN ret.selected <=>
                    \A i \in 1..Len(call.categories) :
                        (i # call.index /\ call.categories[i].hasSelector)
                            => ~Selects(call.categories[i].selector, call.test)
           ELSE ret.selector = cat.selector

----------------------------------------------------------------------------
(* _pretty_print *)

sRegion == <<"r", "e", "g", "i", "o", "n">>
sCategory == <<"c", "a", "t", "e", "g", "o", "r", "y">>
sTotal == <<"t", "o", "t", "a", "l">>
sRatio == <<"r", "a", "t", "i", "o">>
sDuration == <<"d", "u", "r", "a", "t", "i", "o", "n">>

\* REPORT_COLUMN: <<dict key, column text>>
REPORT_COLUMN ==
    << <<"region", sRegion>>, <<"category", sCategory>>,
       <<"failed", Tail(sFailed)>>, <<"total", sTotal>>,
       <<"ratio", sRatio>>, <<"duration", sDuration>> >>

\* str(value)
PyStrOf(x) == IF x.t = "int" THEN IntToStr(x.v) ELSE x.v

\* bool(value)
PyTruthy(x) == IF x.t = "int" THEN x.v # 0 ELSE x.v # <<>>

\* format(text, "^width"): centred, the odd space on the right
Center(text, width) ==
    Bind(width - Len(text), LAMBDA pad :
        IF pad <= 0 THEN text
        ELSE Rep(" ", pad \div 2) \o text \o Rep(" ", pad - pad \div 2))

\* mutant of InitialLength: the surrounding spaces forgotten
InitialLengthBare(key) == Len(key[2])

\* line 39: the column's length before any record is looked at
InitialLength(key) == Len(key[2]) + 2  \* Surrounding spaces.

\* lines 42-44: the column's length after looking at record d
NextLength(length, d, key) ==
    Bind(IF key[1] \in DOMAIN d THEN Len(PyStrOf(d[key[1]])) ELSE 0, LAMBDA i :
        IF i > length THEN i + 2 ELSE length)

RECURSIVE ColumnLength(_, _, _)
\* lengths[key] after the loop of lines 40-44 over dicts[:n]
ColumnLength(key, dicts, n) ==
    IF n = 0 THEN InitialLength(key)
    ELSE Bind(ColumnLength(key, dicts, n - 1), LAMBDA length :
            NextLength(length, dicts[n], key))

\* the text of a row's cell: d.get(key) or "_"
CellText(d, key) ==
    IF key[1] \in DOMAIN d /\ PyTruthy(d[key[1]]) THEN PyStrOf(d[key[1]])
    ELSE <<"_">>

\* lines 47-62: the lines of the table for the column lengths computed
PrintRows(dicts, keys, lengths) ==
    << <<>>,
       Join(<<>> \o [k \in 1..Len(keys) |-> Center(keys[k][2], lengths[k])],
            <<"|">>),
       Join(<<>> \o [k \in 1..Len(keys) |->
                        Center(Rep("-", lengths[k]), lengths[k])],
            <<"|">>) >>
    \o [i \in 1..Len(dicts) |->
            Join(<<>> \o [k \in 1..Len(keys) |->
                            Center(CellText(dicts[i], keys[k]), lengths[k])],
                 <<"|">>)]

\* _pretty_print(dicts, keys): the list of lines
PrettyPrint(dicts, keys) ==
    IF Len(dicts) = 0 THEN <<>>
    ELSE Bind(<<>> \o [k \in 1..Len(keys) |->
                        ColumnLength(keys[k], dicts, Len(dicts))],
              LAMBDA lengths : PrintRows(dicts, keys, lengths))

MaxRecords == 3

sRegionLong == <<"f", "r", "a", "n", "c", "e", "/", "i", "d", "f">>

\* records as _get_results builds them: a passed run (failed = 0), a run
\* with failures and a long duration, a run without summary banner (labels
\* only), "no tests ran" with 0 seconds, and a region with a long name
RecordPool ==
    { GetResults(sFr, sPoi, LineOf(BannerShape(-1, 1, <<"1">>, 3))).val,
      GetResults(sFr, sAddr,
                 LineOf(BannerShape(7, 1, <<"7", "5", ".", "5">>, 3))).val,
      GetResults(sFr, sPoi, sSkipped).val,
      GetResults(sFr, sAddr, LineOf(BannerShape(-1, -1, <<"0">>, 3))).val,
      GetResults(sRegionLong, sPoi,
                 LineOf(BannerShape(12, 12, <<"1">>, 3))).val }

InitPrint ==
    /\ call \in {[fn |-> "_pretty_print", dicts |-> ds] :
                    ds \in SeqsUpTo(RecordPool, MaxRecords)}
    /\ ret = Pending
    /\ NoRun

CallPrettyPrint ==
    /\ call.fn = "_pretty_print"
    /\ ret = Pending
    /\ ret' = [exc |-> "none", out |-> PrettyPrint(call.dicts, REPORT_COLUMN)]
    /\ UNCHANGED <<call, ctx, fs, pc, args, run, log>>

SpecPrint == InitPrint /\ [][CallPrettyPrint]_vars

\* text without its leading and trailing spaces
Strip(text) ==
    Bind({i \in 1..Len(text) : text[i] # " "}, LAMBDA S :
        IF S = {} THEN <<>>
        ELSE SubSeq(text, CHOOSE i \in S : \A j \in S : i <= j,
                          CHOOSE i \in S : \A j \in S : j <= i))

Cells(line) == SplitOn(line, "|")

NumColumns == Len(REPORT_COLUMN)

\* header and seps are the cells of the header row and of the separator
\* row: the column texts in order, every column at least the header's
\* length + 2 wide, dashes over the whole width
HeaderLayout(header, seps) ==
    /\ Len(header) = NumColumns /\ Len(seps) = NumColumns
    /\ \A k \in 1..NumColumns :
        /\ Strip(header[k]) = REPORT_COLUMN[k][2]
        /\ Len(header[k]) >= Len(REPORT_COLUMN[k][2]) + 2
        /\ seps[k] = Rep("-", Len(header[k]))

\* row holds the cells of the row of record d
RowLayout(row, d) ==
    /\ Len(row) = NumColumns
    /\ Strip(row[1]) = d["region"].v
    /\ Strip(row[2]) = d["category"].v

\* out[first] is the header row, out[first + 1] the separator row and
\* out[first + 1 + i] the row of record i
TableLayout(out, dicts, first) ==
    /\ \E header \in {Cells(out[first])} : \E seps \in {Cells(out[first + 1])} :
            HeaderLayout(header, seps)
    /\ \A i \in 1..Len(dicts) :
            \E row \in {Cells(out[first + 1 + i])} : RowLayout(row, dicts[i])

\* C8 as stated: no line for zero records; for n >= 1 records a header row,
\* a separator row of dashes and one row per record in input order, n + 2
\* lines in that order, every column at least the header's length + 2 wide.
PrintHeaderFirst ==
    ret # Pending =>
        IF Len(call.dicts) = 0 THEN ret.out = <<>>
        ELSE /\ Len(ret.out) = Len(call.dicts) + 2
             /\ TableLayout(ret.out, call.dicts, 1)

\* C8 amended: no line for zero records; for n >= 1 records an empty first
\* line, then the header row, the separator row of dashes and one row per
\* record in input order, n + 3 lines in that order, every column at least
\* the header's length + 2 wide.
PrintEmptyLineThenTable ==
    ret # Pending =>
        IF Len(call.dicts) = 0 THEN ret.out = <<>>
        ELSE /\ Len(ret.out) = Len(call.dicts) + 3
             /\ ret.out[1] = <<>>
             /\ TableLayout(ret.out, call.dicts, 2)

\* three records were rendered, the first with a region wider than its header
PrintEmptyLineThenTableWitness ==
    /\ ret # Pending
    /\ Len(call.dicts) = 3
    /\ call.dicts[1]["region"].v = sRegionLong
    /\ call.dicts[2]["region"].v = sFr
    /\ Len(ret.out) = 6

\* the cell of column k in the row of record i
CellOf(out, n, i, k) == Strip(Cells(out[Len(out) - n + i])[k])

\* C9: a cell is rendered as "_" iff the record has no value for the column;
\* every value present, a failed or total count of 0 included, is rendered
\* as its own text.
PrintUnderscoreIffMissing ==
    (ret # Pending /\ Len(call.dicts) > 0) =>
        \A i \in 1..Len(call.dicts) : \A k \in 1..NumColumns :
            \E cell \in {CellOf(ret.out, Len(call.dicts), i, k)} :
                /\ (cell = <<"_">>)
                        <=> (REPORT_COLUMN[k][1] \notin DOMAIN call.dicts[i])
                /\ REPORT_COLUMN[k][1] \in DOMAIN call.dicts[i]
                        => cell = PyStrOf(call.dicts[i][REPORT_COLUMN[k][1]])

----------------------------------------------------------------------------
(* The tasks run_all and run_pytest on one context.                         *)
(*                                                                          *)
(* ctx:  url, regions, categories, output_dir (set = FALSE: the key is not  *)
(*       in the context)                                                    *)
(* fs:   dirs: the directories that exist, made: the os.makedirs calls in   *)
(*       order, now: the clock, one tick a call                             *)
(* pc:   where the running task is                                          *)
(* args: the arguments of the running task                                  *)
(* run:  the locals of the running task                                     *)
(* log:  what the running task has done so far: directories made, status   *)
(*       requests, files opened for writing, subprocesses run              *)

MaxCalls == 2

sAutocomplete == <<"/", "a", "u", "t", "o", "c", "o", "m", "p", "l", "e", "t", "e">>
sStatus == <<"/", "s", "t", "a", "t", "u", "s">>
sHost == <<"h", "t", "t", "p", ":", "/", "/", "h">>
sUrlMimir == sHost \o sAutocomplete
sUrlAddok == sHost \o <<"/", "s", "e", "a", "r", "c", "h">>
sDe == <<"d", "e">>
sIdf == <<"f", "r", "/", "i", "d", "f">>
sTester == <<"g", "e", "o", "c", "o", "d", "e", "r", "-", "t", "e", "s", "t", "e", "r">>
sNightly == <<"n", "i", "g", "h", "t", "l", "y">>
sOut == <<"o", "u", "t">>
sRest == <<"r", "e", "s", "t">>
sVersion == <<"v", "1">>

PyNone == [t |-> "None", v |-> 0]

\* sub in text
Contains(text, sub) == \E i \in 1..Len(text) : At(text, i, sub)

RECURSIVE Replace(_, _, _)
\* text.replace(old, new), old not empty
Replace(text, old, new) ==
    IF Contains(text, old)
    THEN Bind(CHOOSE a \in 1..Len(text) :
                At(text, a, old) /\ \A b \in 1..(a - 1) : ~At(text, b, old),
              LAMBDA i :
                SubSeq(text, 1, i - 1) \o new
                    \o Replace(SubSeq(text, i + Len(old), Len(text)), old, new))
    ELSE text

\* a directory: the run's output directory f"{base_output_dir}/{name}_{dt}"
\* (stamp: the time dt) or one given by the configuration (stamp 0), and
\* sub: a directory below it
NoDir == [set |-> FALSE, name |-> <<>>, stamp |-> 0, sub |-> <<>>]
Dir(name, stamp) == [set |-> TRUE, name |-> name, stamp |-> stamp, sub |-> <<>>]

\* os.path.dirname(os.path.join(dir, file))
Dirname(dir, file) ==
    Bind({i \in 1..Len(file) : file[i] = "/"}, LAMBDA S :
        IF S = {} THEN dir
        ELSE [dir EXCEPT !.sub =
                SubSeq(file, 1, (CHOOSE i \in S : \A j \in S : j <= i) - 1)])

\* mutant of OutputDirMissing: the directory is made on every call
OutputDirAlwaysMissing(c) == TRUE

\* line 20: "output_dir" not in ctx
OutputDirMissing(c) == ~c.output_dir.set

\* _init_output_dir(ctx, test_name): the context, the file system and the
\* log after the call
InitOutputDir(c, f, l, test_name) ==
    IF OutputDirMissing(c)
    THEN [ctx |-> [c EXCEPT !.output_dir = Dir(test_name, f.now)],
          fs |-> [f EXCEPT !.dirs = @ \cup {Dir(test_name, f.now)},
                           !.made = Append(@, Dir(test_name, f.now))],
          log |-> Append(l, [ev |-> "makedirs", dir |-> Dir(test_name, f.now)])]
    ELSE [ctx |-> c, fs |-> f, log |-> l]

\* mutant of CtxRun: warn=True dropped, a non-zero exit raises
CtxRunNoWarn(exit) == IF exit # 0 THEN "UnexpectedExit" ELSE "none"

\* line 157: ctx.run(py_test, out_stream=log_file, warn=True): the exception
\* raised for the subprocess's exit status
CtxRun(exit) == "none"

\* what the test subprocess can do: its exit status and its output (all
\* tests passed; some failed)
OutcomePool ==
    { [exit |-> 0, stdout |-> Join(<<sSkipped,
                        LineOf(BannerShape(-1, 1, <<"1">>, 3))>>, <<"\n">>)],
      [exit |-> 1, stdout |-> Join(<<
                        LineOf(BannerShape(7, 1, <<"7", "5", ".", "5">>, 3)),
                        <<>> >>, <<"\n">>)] }

\* what the request to the status endpoint can do
StatusOutcomes == {"connection_error", "http_error", "bad_body", "no_version",
                   "ok"}

ConfigCategories ==
    << Category(sPoi, TRUE, sPoi, FALSE), Category(sRest, FALSE, <<>>, TRUE) >>

NoArgs ==
    [task |-> "none", url |-> <<>>, name |-> <<>>, regions |-> <<>>,
     region |-> <<>>, category |-> ConfigCategories[1]]

NoLocals ==
    [url |-> <<>>, version |-> PyNone, r |-> 1, c |-> 1, res |-> <<>>,
     report |-> <<>>, exc |-> "none"]

Init ==
    /\ call = <<>> /\ ret = <<>>
    /\ \E u \in {<<>>, sUrlMimir}, d \in {NoDir, Dir(sOut, 0)} :
        /\ ctx = [url |-> u, regions |-> <<sFr>>,
                  categories |-> ConfigCategories, output_dir |-> d]
        /\ \E ds \in SUBSET {Dir(sOut, 0)} :
            /\ (ds # {} => d.set)
            /\ fs = [dirs |-> ds, made |-> <<>>, now |-> 0]
    /\ pc = "idle"
    /\ args = NoArgs
    /\ run = NoLocals
    /\ log = <<>>

Idle == pc \in {"idle", "done", "raised"} /\ fs.now < MaxCalls

\* the task run_all is invoked
CallRunAll ==
    /\ Idle
    /\ \E u \in {<<>>, sUrlAddok}, n \in {sTester, sNightly},
          rs \in {<<>>, sIdf \o <<",">> \o sDe} :
        args' = [NoArgs EXCEPT !.task = "run_all", !.url = u, !.name = n,
                               !.regions = rs]
    /\ fs' = [fs EXCEPT !.now = @ + 1]
    /\ pc' = "run_all"
    /\ run' = NoLocals
    /\ log' = <<>>
    /\ UNCHANGED <<call, ret, ctx>>

\* the task run_pytest is invoked on its own
CallRunPytest ==
    /\ Idle
    /\ \E c \in 1..Len(ctx.categories) :
        args' = [NoArgs EXCEPT !.task = "run_pytest", !.url = sUrlAddok,
                               !.name = sNightly, !.region = sDe,
                               !.category = ctx.categories[c]]
    /\ fs' = [fs EXCEPT !.now = @ + 1]
    /\ pc' = "run_pytest"
    /\ run' = NoLocals
    /\ log' = <<>>
    /\ UNCHANGED <<call, ret, ctx>>

\* run_all, lines 188-195
RunAllStart ==
    /\ pc = "run_all"
    /\ \E o \in {InitOutputDir(ctx, fs, log, args.name)} :
        /\ ctx' = IF args.regions # <<>>
                  THEN [o.ctx EXCEPT !.regions = SplitOn(args.regions, ",")]
                  ELSE o.ctx
        /\ fs' = o.fs
        /\ log' = o.log
    /\ \E url \in {IF args.url # <<>> THEN args.url ELSE ctx.url} :
        IF url = <<>>
        THEN /\ pc' = "raised"
             /\ run' = [run EXCEPT !.exc = "no url provided"]
        ELSE /\ pc' = "get_version"
             /\ run' = [run EXCEPT !.url = url]
    /\ UNCHANGED <<call, ret, args>>

\* _get_version(url) when the request to the status endpoint ends as
\* outcome: requests.get is outside the try block, so a connection error
\* escapes; raise_for_status and json() are inside it.
GetVersionOf(url, outcome) ==
    IF ~Contains(url, sAutocomplete)
    THEN [exc |-> "none", version |-> PyNone, requested |-> <<>>,
          warned |-> FALSE]
    ELSE [exc |-> IF outcome = "connection_error" THEN "ConnectionError"
                  ELSE "none",
          version |-> IF outcome = "ok" THEN PyStr(sVersion) ELSE PyNone,
          requested |-> Replace(url, sAutocomplete, sStatus),
          warned |-> outcome \in {"http_error", "bad_body"}]

\* run_all, lines 199-201
GetVersion ==
    /\ pc = "get_version"
    /\ \E outcome \in StatusOutcomes :
        \E v \in {GetVersionOf(run.url, outcome)} :
           /\ (v.requested = <<>> => outcome = "ok")
           /\ log' = IF v.requested = <<>> THEN log
                     ELSE Append(log, [ev |-> "request", url |-> v.requested,
                                       outcome |-> outcome,
                                       warned |-> v.warned])
           /\ IF v.exc # "none"
              THEN /\ pc' = "raised"
                   /\ run' = [run EXCEPT !.exc = v.exc]
              ELSE /\ pc' = "run_pytest"
                   /\ run' = [run EXCEPT !.version = v.version]
    /\ UNCHANGED <<call, ret, ctx, fs, args>>

\* the (region, category) the running run_pytest call is about
CurRegion == IF args.task = "run_all" THEN ctx.regions[run.r] ELSE args.region
CurCategory ==
    IF args.task = "run_all" THEN ctx.categories[run.c] ELSE args.category
CurUrl == IF args.task = "run_all" THEN run.url ELSE args.url

\* lines 152-154: the directories os.makedirs creates for the parent of the
\* log file, the outermost first
MissingDirs(parent, dirs) ==
    IF parent \in dirs THEN <<>>
    ELSE (IF [parent EXCEPT !.sub = <<>>] \in dirs \/ parent.sub = <<>>
          THEN <<>> ELSE <<[parent EXCEPT !.sub = <<>>]>>) \o <<parent>>

\* run_pytest, lines 125-157, up to the start of the subprocess
PytestInvoke ==
    /\ pc = "run_pytest"
    /\ \E o \in {InitOutputDir(ctx, fs, log, args.name)} :
       \E test_name \in {CurRegion \o <<"_">> \o CurCategory.name} :
       \E missing \in {MissingDirs(Dirname(o.ctx.output_dir, test_name),
                                   o.fs.dirs)} :
          /\ ctx' = o.ctx
          /\ fs' = [o.fs EXCEPT
                        !.dirs = @ \cup {missing[i] : i \in 1..Len(missing)},
                        !.made = @ \o missing]
          /\ log' = (o.log \o [i \in 1..Len(missing) |->
                                    [ev |-> "makedirs", dir |-> missing[i]]])
                        \o <<[ev |-> "write",
                              file |-> test_name \o <<".", "l", "o", "g">>],
                             [ev |-> "invoke", region |-> CurRegion,
                              category |-> CurCategory.name,
                              selector |-> PytestSelector(o.ctx.categories,
                                                          CurCategory),
                              url |-> CurUrl]>>
    /\ pc' = "subprocess"
    /\ UNCHANGED <<call, ret, args, run>>

\* run_all, lines 202-206: the loop variables after a run_pytest call
\* returned val
LoopStep(val) ==
    \E lastC \in {run.c = Len(ctx.categories)} :
    \E lastR \in {run.r = Len(ctx.regions)} :
        /\ pc' = IF lastC /\ lastR THEN "report" ELSE "run_pytest"
        /\ run' = [run EXCEPT !.res = Append(@, val),
                              !.c = IF lastC THEN 1 ELSE @ + 1,
                              !.r = IF lastC /\ ~lastR THEN @ + 1 ELSE @]

\* run_pytest, lines 157-162, from the end of the subprocess, and the
\* loop of run_all, lines 202-206
PytestReturn ==
    /\ pc = "subprocess"
    /\ \E outcome \in OutcomePool :
       \E exc \in {CtxRun(outcome.exit)} :
       \E res \in {GetResults(CurRegion, CurCategory.name, outcome.stdout)} :
        IF exc # "none" \/ res.exc # "none"
        THEN /\ pc' = "raised"
             /\ run' = [run EXCEPT
                            !.exc = IF exc # "none" THEN exc ELSE res.exc]
             /\ log' = log
        ELSE /\ log' = Append(log, [ev |-> "return", region |-> CurRegion,
                                    category |-> CurCategory.name,
                                    exit |-> outcome.exit])
             /\ IF args.task = "run_pytest"
                THEN /\ pc' = "done"
                     /\ run' = [run EXCEPT !.res = <<res.val>>]
                ELSE LoopStep(res.val)
    /\ UNCHANGED <<call, ret, ctx, fs, args>>

sReportLog == <<"r", "e", "p", "o", "r", "t", ".", "l", "o", "g">>
sReportJson == <<"r", "e", "p", "o", "r", "t", ".", "j", "s", "o", "n">>
sReportCsv == <<"r", "e", "p", "o", "r", "t", ".", "c", "s", "v">>

\* the fields lines 228-235 add to every record
ReportExtra ==
    [directory |-> [t |-> "dir", v |-> ctx.output_dir],
     url |-> PyStr(run.url), name |-> PyStr(args.name),
     version |-> run.version]

\* run_all, lines 208-237: the table and the three report files
Report ==
    /\ pc = "report"
    /\ run' = [run EXCEPT
                !.report = Join(PrettyPrint(run.res, REPORT_COLUMN), <<"\n">>),
                !.res = <<>> \o [i \in 1..Len(run.res) |->
                                    Update(run.res[i], ReportExtra)]]
    /\ log' = log \o <<[ev |-> "write", file |-> sReportLog],
                       [ev |-> "write", file |-> sReportJson],
                       [ev |-> "write", file |-> sReportCsv]>>
    /\ pc' = "done"
    /\ UNCHANGED <<call, ret, ctx, fs, args>>

Next ==
    \/ CallRunAll
    \/ CallRunPytest
    \/ RunAllStart
    \/ GetVersion
    \/ PytestInvoke
    \/ PytestReturn
    \/ Report

Spec == Init /\ [][Next]_vars

----------------------------------------------------------------------------
(* Properties of run_all and run_pytest *)

\* the events of one kind the running task has logged, in order
Events(kind) == SelectSeq(log, LAMBDA e : e.ev = kind)

\* the files the running task has opened for writing, in order
Written == [i \in 1..Len(Events("write")) |-> Events("write")[i].file]

ReportFiles == {sReportLog, sReportJson, sReportCsv}

NumPairs == Len(ctx.regions) * Len(ctx.categories)

\* the k-th (region, category) pair, region-major, then category order
Pair(k) ==
    [region |-> ctx.regions[((k - 1) \div Len(ctx.categories)) + 1],
     category |-> ctx.categories[((k - 1) % Len(ctx.categories)) + 1].name]

\* the k-th subprocess is the one of the k-th pair
InvokedInOrder(invoked) ==
    /\ Len(invoked) <= NumPairs
    /\ \A k \in 1..Len(invoked) :
        /\ invoked[k].region = Pair(k).region
        /\ invoked[k].category = Pair(k).category

\* the k-th record is the one of the k-th pair, appended when its
\* subprocess returned
RecordsInOrder(returned) ==
    /\ Len(run.res) = Len(returned)
    /\ \A k \in 1..Len(returned) :
        /\ returned[k].region = Pair(k).region
        /\ returned[k].category = Pair(k).category
        /\ run.res[k]["region"] = PyStr(Pair(k).region)
        /\ run.res[k]["category"] = PyStr(Pair(k).category)

\* C5: in run_all with a URL set, whatever exit status each test subprocess
\* returns, the run is not aborted once the subprocesses have started: the
\* subprocesses are invoked in region-major then category order, one per
\* pair, the next one only after the previous one returned; every return
\* appends the record of its pair; a report file is written only after the
\* subprocess of the last pair returned; and a finished run has run every
\* pair and written the three report files.
SubprocessesRunInOrder ==
    (args.task = "run_all" /\ run.url # <<>>) =>
        /\ InvokedInOrder(Events("invoke"))
        /\ RecordsInOrder(Events("return"))
        /\ Len(Events("invoke")) - Len(Events("return"))
                = (IF pc = "subprocess" THEN 1 ELSE 0)
        /\ (pc = "raised" => Events("invoke") = <<>>)
        /\ (\E i \in 1..Len(Written) : Written[i] \in ReportFiles)
                => Len(Events("return")) = NumPairs
        /\ pc = "done" =>
                /\ Len(Events("invoke")) = NumPairs
                /\ SubSeq(Written, Len(Written) - 2, Len(Written))
                        = <<sReportLog, sReportJson, sReportCsv>>

\* a run_all over two regions and two categories finished although its
\* first subprocess returned a non-zero exit status
SubprocessesRunInOrderWitness ==
    /\ args.task = "run_all"
    /\ pc = "done"
    /\ Len(Events("return")) = 4
    /\ Events("return")[1].exit # 0
    /\ Events("return")[4].exit = 0
    /\ Len(run.res) = 4

\* the outcomes of the status request that are failures
StatusFailures == {"connection_error", "http_error", "bad_body"}

\* C6: in run_all a failure to reach or read the status endpoint is never
\* fatal: the run does not raise, a warning is logged, the version is
\* recorded as absent, and a finished run has run every pair and written
\* the reports.
VersionFailureNeverFatal ==
    (/\ args.task = "run_all"
     /\ Len(Events("request")) > 0
     /\ Events("request")[1].outcome \in StatusFailures) =>
        /\ pc # "raised"
        /\ Events("request")[1].warned
        /\ run.version = PyNone
        /\ pc = "done" =>
                /\ Len(Events("return")) = NumPairs
                /\ \A f \in ReportFiles : \E i \in 1..Len(Written) : Written[i] = f

\* C7: when run_all is called with no URL it raises before any work starts:
\* no directory has been created, output_dir has not been set by the call,
\* no status request has been made and no subprocess has been invoked.
NoUrlRaisesBeforeAnyWork ==
    (args.task = "run_all" /\ pc = "raised" /\ run.exc = "no url provided") =>
        /\ log = <<>>
        /\ \A i \in 1..Len(fs.made) : fs.made[i].stamp # fs.now
        /\ ~(ctx.output_dir.set /\ ctx.output_dir.stamp = fs.now)

\* C10: over any sequence of run_all and run_pytest calls on one context,
\* output_dir never changes once it is set, and a step that creates a run
\* directory creates the one output_dir names, which no earlier step has
\* created: the output directory is created at most once.
OutputDirCreatedOnce ==
    [][/\ ctx.output_dir.set => ctx'.output_dir = ctx.output_dir
       /\ \A i \in (Len(fs.made) + 1)..Len(fs'.made) :
            fs'.made[i].sub = <<>> =>
                /\ fs'.made[i] = ctx'.output_dir
                /\ \A j \in 1..Len(fs.made) : fs.made[j] # fs'.made[i]]_vars

\* a second task, called with another name than the first, is past its
\* _init_output_dir call and the directory of the first call is still the
\* only run directory made
OutputDirCreatedOnceWitness ==
    /\ fs.now = 2
    /\ pc = "subprocess"
    /\ ctx.output_dir.set
    /\ ctx.output_dir.stamp = 1
    /\ args.name # ctx.output_dir.name
    /\ fs.made[1] = ctx.output_dir
    /\ \A i \in 2..Len(fs.made) : fs.made[i].sub # <<>>

====
